---- MODULE Spec2Model ----
(***************************************************************************)
(* A model of the pantry core of hemarastylepeke/bleedingedge:             *)
(*   - the expiry sweep, core/signals.py                                   *)
(*       detect_and_process_all_expired_items                              *)
(*   - the image pipeline, core/services/ai_image_processing.py            *)
(*       extract_text_from_image, the text parsers,                        *)
(*       process_pantry_item_images, enhance_pantry_item_with_ai           *)
(*                                                                         *)
(* Five specifications share the variables:                                *)
(*   Spec       sweeps of several callers, interleaved statement by        *)
(*              statement (overlapping triggers), on the SQLite database   *)
(*              of settings.py with its file locks                         *)
(*   SpecSeq    the same sweep, one run at a time                          *)
(*   SpecMerge  process_pantry_item_images on two vision responses         *)
(*   SpecText   the text parsers on one detected text                       *)
(*   SpecApply  enhance_pantry_item_with_ai on one pantry item             *)
(***************************************************************************)
EXTENDS Integers, Sequences, FiniteSets, TLC

VARIABLES
    \* ---- expiry sweep ----
    clock,      \* the server date, timezone.now().date(), as a day number
    pantry,     \* UserPantry rows: id -> [user, status, quantity, expiry_date]
    ledger,     \* FoodWasteRecord rows in insertion order (committed rows)
    sweep,      \* per caller: the locals of one run of the sweep
    trans,      \* history: per item, how many committed mark_as_expired calls
    hist,       \* history: the finished runs, in order of completion
    seqOnly,    \* TRUE when runs are not allowed to overlap (SpecSeq)
    \* ---- image pipeline ----
    merge,      \* one call of process_pantry_item_images: arguments and locals
    apply,      \* one pantry item and the calls of enhance_pantry_item_with_ai
    parse,      \* one detected text and what the text parsers return for it
    year        \* the server's year, timezone.now().year, at its latest read

vars ==
    <<clock, pantry, ledger, sweep, trans, hist, seqOnly, merge, apply, parse, year>>

(***************************************************************************)
(* Bounds of the model.                                                    *)
(***************************************************************************)
MaxDay  == 2    \* days are 0..MaxDay; the clock starts at 1
MaxQty  == 1    \* quantities are 0 and MaxQty
MaxRuns == 2    \* runs of the sweep in one behaviour, when they do not overlap
MaxApply == 2   \* calls of enhance_pantry_item_with_ai on one item
MaxYears == 2   \* the years the calls of the pipeline can fall in

\* The year of the first call.
FirstYear == 2025

Years == FirstYear..(FirstYear + MaxYears - 1)

ItemIds == {"i1", "i2"}
Users   == {"u1", "u2"}
Procs   == {"p1", "p2"}

\* The image pipeline at rest, in the specifications of the sweep.
MergeOff == [pc |-> "off"]

ApplyOff == [pc |-> "off"]

ParseOff == [pc |-> "off"]

(***************************************************************************)
(* The expiry sweep.                                                       *)
(***************************************************************************)
\* A nullable DateField: <<>> is NULL, <<d>> is day d.
NoDate == <<>>

DateOf(d) == <<d>>

\* Mutant: the comparison lets today itself through.
expiry_date__lt_OrEqual(e, today) == e # NoDate /\ e[1] <= today

\* expiry_date__lt=today: SQL's NULL < today is not true.
expiry_date__lt(e, today) == e # NoDate /\ e[1] < today

\* quantity__gt=0
quantity__gt(q, n) == q > n

\* Mutant: the filter without status='active'.
MatchesFilter_AnyStatus(row, user, today) ==
    /\ row.user = user
    /\ expiry_date__lt(row.expiry_date, today)
    /\ quantity__gt(row.quantity, 0)

\* The filter of lines 18-23, on one row.
MatchesFilter(row, user, today) ==
    /\ row.user = user
    /\ row.status = "active"
    /\ expiry_date__lt(row.expiry_date, today)
    /\ quantity__gt(row.quantity, 0)

\* The queryset, evaluated when the for loop starts: the matching rows as the
\* loop holds them (id and the fields read later).
expired_items(user, today) ==
    { [id |-> i, quantity |-> pantry[i].quantity,
       expiry_date |-> pantry[i].expiry_date] :
        i \in { j \in ItemIds : MatchesFilter(pantry[j], user, today) } }

\* FoodWasteRecord.objects.filter(pantry_item=item, reason='expired',
\* waste_date=today).exists(), on the committed rows and the rows this
\* transaction wrote.
existing_waste_record(rows, item, today) ==
    \E k \in 1..Len(rows) :
        /\ rows[k].pantry_item = item
        /\ rows[k].reason = "expired"
        /\ rows[k].waste_date = today

\* The row FoodWasteRecord.objects.create writes (lines 42-54).
NewWasteRecord(user, item, today) ==
    [user |-> user, pantry_item |-> item.id,
     original_quantity |-> item.quantity,
     quantity_wasted |-> item.quantity,
     reason |-> "expired",
     expiry_date |-> item.expiry_date,
     waste_date |-> today]

\* UserPantry.mark_as_expired (core/models.py): the row's status becomes
\* 'expired'; the quantity is left alone.
mark_as_expired(rows, id) == [rows EXCEPT ![id].status = "expired"]

NoItem == [id |-> "none", quantity |-> 0, expiry_date |-> NoDate]

IdleSweep ==
    [pc |-> "idle", user |-> "u1", today |-> 0, queue |-> {},
     item |-> NoItem, txn |-> <<>>, count |-> 0,
     \* history of the run: what it selected, marked, failed on and wrote
     selected |-> {}, marked |-> {}, failed |-> {}, created |-> <<>>,
     writes |-> 0, undone |-> 0, pre |-> <<>>,
     \* the items the count went up for, and those whose commit failed
     counted |-> {}, lost |-> {},
     \* the lock of the caller's connection on the database file, and the
     \* items a write of which met the reserved lock of another connection
     lock |-> "none", refused |-> {}]

PantryRows ==
    [user : Users, status : {"active", "consumed"},
     quantity : {0, MaxQty},
     expiry_date : {NoDate} \cup {DateOf(d) : d \in 0..MaxDay}]

\* A row of another reason, written by an out-of-scope flow on day 1.
OtherRecord(i) ==
    [user |-> pantry[i].user, pantry_item |-> i,
     original_quantity |-> 1, quantity_wasted |-> 1,
     reason |-> "spoiled", expiry_date |-> NoDate, waste_date |-> 1]

InitSweep ==
    /\ clock = 1
    /\ pantry \in [ItemIds -> PantryRows]
    /\ pantry["i1"].user = "u1"
    /\ ledger = <<OtherRecord("i1")>>
    /\ sweep = [p \in Procs |-> IdleSweep]
    /\ trans = [i \in ItemIds |-> 0]
    /\ hist = <<>>

\* The clock moves on, also while a run is under way.
Tick ==
    /\ clock < MaxDay
    /\ clock' = clock + 1
    /\ UNCHANGED <<pantry, ledger, sweep, trans, hist, seqOnly, merge, apply, parse, year>>

RunsStarted == Len(hist) + Cardinality({p \in Procs : sweep[p].pc # "idle"})

\* Runs in one behaviour: MaxRuns one after the other, or one for each caller
\* when they may overlap.
RunLimit == IF seqOnly THEN MaxRuns ELSE Cardinality(Procs)

\* Lines 14-23: the server date is read and the queryset is built; a
\* queryset is lazy, nothing is read from the database yet.
Start(p, u) ==
    /\ sweep[p].pc = "idle"
    /\ RunsStarted < RunLimit
    /\ seqOnly => \A q \in Procs : sweep[q].pc = "idle"
    /\ sweep' = [sweep EXCEPT ![p] =
            [IdleSweep EXCEPT !.pc = "query", !.user = u, !.today = clock]]
    /\ UNCHANGED <<clock, pantry, ledger, trans, hist, seqOnly, merge, apply, parse, year>>

\* Line 26: the loop begins and the queryset is evaluated, with the date read
\* at line 14 and the rows as they are in the database now.
EvaluateQuery(p) ==
    /\ sweep[p].pc = "query"
    /\ sweep' = [sweep EXCEPT
            ![p].pc = "loop",
            ![p].queue = expired_items(sweep[p].user, sweep[p].today),
            ![p].selected =
                {r.id : r \in expired_items(sweep[p].user, sweep[p].today)},
            ![p].pre = pantry]
    /\ UNCHANGED <<clock, pantry, ledger, trans, hist, seqOnly, merge, apply, parse, year>>

\* Line 26-30: the next item of the loop; its atomic block is entered.
NextItem(p) ==
    /\ sweep[p].pc = "loop"
    /\ \E it \in sweep[p].queue :
         sweep' = [sweep EXCEPT ![p].item = it,
                                ![p].queue = sweep[p].queue \ {it},
                                ![p].txn = <<>>,
                                ![p].pc = "check"]
    /\ UNCHANGED <<clock, pantry, ledger, trans, hist, seqOnly, merge, apply, parse, year>>

\* Mutant: no lock of another connection refuses a lock (a store that locks
\* rows, not the file).
Blocks_Never(held, wanted) == FALSE

\* settings.py, lines 96-101: the database is SQLite, which locks the whole
\* file.  In a transaction a connection takes the shared lock at its first
\* read and the reserved lock at its first write, and its COMMIT takes the
\* exclusive lock; it holds them until the transaction ends.  The value is
\* whether a lock held by another connection refuses the lock wanted.
Blocks(held, wanted) ==
    CASE wanted = "shared" -> FALSE
      [] wanted = "reserved" -> held = "reserved"
      [] wanted = "exclusive" -> held \in {"shared", "reserved"}

\* Whether the connection of caller p gets a lock now.
Granted(p, wanted) ==
    \A q \in Procs \ {p} : ~Blocks(sweep[q].lock, wanted)

\* Lines 33-40: the existence check, the first read of the transaction.  It
\* sees the committed rows and the rows of its own transaction.
CheckExisting(p) ==
    /\ sweep[p].pc = "check"
    /\ Granted(p, "shared")
    /\ sweep' = [sweep EXCEPT
            ![p].lock = "shared",
            ![p].pc =
               IF existing_waste_record(ledger \o sweep[p].txn,
                                        sweep[p].item.id, sweep[p].today)
               THEN "mark" ELSE "create"]
    /\ UNCHANGED <<clock, pantry, ledger, trans, hist, seqOnly, merge, apply, parse, year>>

\* Lines 42-54: the insert, inside the atomic block: not committed yet.  It
\* goes through when no other connection holds the reserved lock (otherwise
\* it raises 'database is locked': CreateFails).
CreateRecord(p) ==
    /\ sweep[p].pc = "create"
    /\ Granted(p, "reserved")
    /\ sweep' = [sweep EXCEPT
            ![p].lock = "reserved",
            ![p].txn = Append(sweep[p].txn,
                 NewWasteRecord(sweep[p].user, sweep[p].item, sweep[p].today)),
            ![p].pc = "mark"]
    /\ UNCHANGED <<clock, pantry, ledger, trans, hist, seqOnly, merge, apply, parse, year>>

\* Mutant: the handler leaves the loop (break for continue).
RolledBack_StopsLoop(s) ==
    [s EXCEPT !.txn = <<>>, !.failed = s.failed \cup {s.item.id},
              !.undone = s.undone + Len(s.txn), !.queue = {},
              !.lock = "none", !.item = NoItem, !.pc = "loop"]

\* What leaving the atomic block by an exception does (lines 28, 61-63): the
\* block's writes are rolled back and its locks given up, the item is logged
\* and the loop goes on.
RolledBack(s) ==
    [s EXCEPT !.txn = <<>>, !.failed = s.failed \cup {s.item.id},
              !.undone = s.undone + Len(s.txn),
              !.lock = "none", !.item = NoItem, !.pc = "loop"]

\* Caller p at a write that raises: the item is noted when the reserved lock
\* of another connection stood in the way ('database is locked').
AtRefusal(p) ==
    [sweep[p] EXCEPT !.refused =
        IF Granted(p, "reserved") THEN @ ELSE @ \cup {sweep[p].item.id}]

\* Mutant: no atomic block, the insert stays when mark_as_expired raises.
AfterException_KeepsInsert(p) ==
    /\ sweep' = [sweep EXCEPT ![p] = RolledBack(AtRefusal(p))]
    /\ ledger' = ledger \o sweep[p].txn

\* An exception inside the atomic block of caller p (lines 28, 61-63): nothing
\* of the block reaches the tables.
AfterException(p) ==
    /\ sweep' = [sweep EXCEPT ![p] = RolledBack(AtRefusal(p))]
    /\ ledger' = ledger

\* The insert raises (lines 42-54, then 61-63).
CreateFails(p) ==
    /\ sweep[p].pc = "create"
    /\ AfterException(p)
    /\ UNCHANGED <<clock, pantry, trans, hist, seqOnly, merge, apply, parse, year>>

\* What the end of the atomic block commits: the rows the block inserted.
Committed(rows, txn) == rows \o txn

\* Lines 57-59: mark_as_expired and the count, inside the atomic block.  The
\* UPDATE goes through when no other connection holds the reserved lock
\* (otherwise it raises 'database is locked': MarkFails); the caller holds
\* the reserved lock from then on, and the status is not committed yet.
MarkAsExpired(p) ==
    /\ sweep[p].pc = "mark"
    /\ Granted(p, "reserved")
    /\ sweep' = [sweep EXCEPT
            ![p].lock = "reserved",
            ![p].count = @ + 1,
            ![p].counted = @ \cup {sweep[p].item.id},
            ![p].pc = "commit"]
    /\ UNCHANGED <<clock, pantry, ledger, trans, hist, seqOnly, merge, apply, parse, year>>

\* mark_as_expired raises (line 57, then 61-63): the insert is rolled back.
MarkFails(p) ==
    /\ sweep[p].pc = "mark"
    /\ AfterException(p)
    /\ UNCHANGED <<clock, pantry, trans, hist, seqOnly, merge, apply, parse, year>>

\* The end of the atomic block (line 28): the COMMIT takes the exclusive
\* lock, for which the locks of the other connections must be gone, and the
\* insert and the status reach the tables together.
Commit(p) ==
    /\ sweep[p].pc = "commit"
    /\ Granted(p, "exclusive")
    /\ pantry' = mark_as_expired(pantry, sweep[p].item.id)
    /\ ledger' = Committed(ledger, sweep[p].txn)
    /\ trans' = [trans EXCEPT ![sweep[p].item.id] = @ + 1]
    /\ sweep' = [sweep EXCEPT
            ![p].marked = @ \cup {sweep[p].item.id},
            ![p].writes = @ + Len(sweep[p].txn) + 1,
            ![p].created = @ \o sweep[p].txn,
            ![p].txn = <<>>,
            ![p].lock = "none",
            ![p].item = NoItem,
            ![p].pc = "loop"]
    /\ UNCHANGED <<clock, hist, seqOnly, merge, apply, parse, year>>

\* The COMMIT at the end of the atomic block raises (a database that stays
\* locked, a lost connection): mark_as_expired has returned and the count has
\* gone up inside the block; the block is rolled back, the exception is
\* caught at lines 61-63 and the count is not taken back.
CommitFails(p) ==
    /\ sweep[p].pc = "commit"
    /\ sweep' = [sweep EXCEPT ![p] =
            RolledBack([sweep[p] EXCEPT
                           !.lost = @ \cup {sweep[p].item.id}])]
    /\ UNCHANGED <<clock, pantry, ledger, trans, hist, seqOnly, merge, apply, parse, year>>

\* Line 65: the loop is over and the count is returned.
Finish(p) ==
    /\ sweep[p].pc = "loop"
    /\ sweep[p].queue = {}
    /\ hist' = Append(hist,
            [user |-> sweep[p].user, today |-> sweep[p].today,
             returned |-> sweep[p].count, marked |-> sweep[p].marked,
             failed |-> sweep[p].failed, selected |-> sweep[p].selected,
             created |-> sweep[p].created, writes |-> sweep[p].writes,
             undone |-> sweep[p].undone,
             counted |-> sweep[p].counted, lost |-> sweep[p].lost,
             pre |-> sweep[p].pre, post |-> pantry])
    /\ sweep' = [sweep EXCEPT ![p] = IdleSweep]
    /\ UNCHANGED <<clock, pantry, ledger, trans, seqOnly, merge, apply, parse, year>>

SweepStep(p) ==
    \/ \E u \in Users : Start(p, u)
    \/ EvaluateQuery(p)
    \/ NextItem(p)
    \/ CheckExisting(p)
    \/ CreateRecord(p)
    \/ CreateFails(p)
    \/ MarkAsExpired(p)
    \/ MarkFails(p)
    \/ Commit(p)
    \/ CommitFails(p)
    \/ Finish(p)

Init ==
    InitSweep /\ seqOnly = FALSE /\ merge = MergeOff /\ apply = ApplyOff
    /\ parse = ParseOff /\ year = FirstYear

Next == Tick \/ \E p \in Procs : SweepStep(p)

\* The callers' statements interleave; their transactions meet in the locks
\* of the SQLite file (Blocks).
Spec == Init /\ [][Next]_vars

InitSeq ==
    InitSweep /\ seqOnly = TRUE /\ merge = MergeOff /\ apply = ApplyOff
    /\ parse = ParseOff /\ year = FirstYear

SpecSeq == InitSeq /\ [][Next]_vars

(***************************************************************************)
(* Python values of the image pipeline.  A value is a pair of a tag and a   *)
(* payload; a dict is a function from its keys.                            *)
(***************************************************************************)
PyNone == <<"none", 0>>

Str(s) == <<"str", s>>

Num(n) == <<"num", n>>

DateObj(y, m, d) == <<"date", <<y, m, d>>>>

\* A str of some lines of text (joined by newlines); no line is "".
Text(lines) == <<"text", lines>>

\* Python's truth value of a value.
Truthy(v) ==
    CASE v[1] = "none" -> FALSE
      [] v[1] = "str"  -> v[2] # ""
      [] v[1] = "num"  -> v[2] # 0
      [] v[1] = "text" -> v[2] # <<>>
      [] OTHER -> TRUE

EmptyDict == <<>>

\* dict.get(k)
Get(d, k) == IF k \in DOMAIN d THEN d[k] ELSE PyNone

\* d[k] = v
Put(d, k, v) == (k :> v) @@ d

\* d.update(e): the values of e win.
Update(d, e) == e @@ d

(***************************************************************************)
(* The text parsers.  A text is a sequence of lines drawn from Lines; Lex   *)
(* gives, for a line, what each regular expression of the source captures  *)
(* in it: the field, the pattern's place in its list, the capture.         *)
(***************************************************************************)
MinYear == 2020

YearsAhead == 5

NDatePatterns == 8

Lines ==
    {"Rolled Oats Original",
     "exp: 03/04/2025",
     "05/06/2026",
     "exp: 01/01/2019",
     "12345678",
     "ABCDEF123456",
     "500 grams",
     "calories: 120 kcal",
     "energy: 250 kcal",
     "protein: 5 g",
     "store: in a cool dry place.",
     "keep: refrigerated after opening.",
     "best before 31/12/25",
     "03/04/2024",
     "use by 01/02/2031",
     "best before may 5, 2031",
     "15 jan 2026",
     "exp: 31-12-2026",
     "31.12.26",
     "exp: 2026-12-31"}

IsNameLine(line) ==
    line \in {"Rolled Oats Original", "protein: 5 g", "store: in a cool dry place.", "keep: refrigerated after opening."}

Lex(line) ==
    CASE line = "Rolled Oats Original" ->
           {}
      [] line = "exp: 03/04/2025" ->
           {[f |-> "date", p |-> 1, v |-> <<"dstr", [shape |-> "num3", sep |-> "/", mon |-> "", a |-> 3, b |-> 4, c |-> 2025, clen |-> 4, s |-> "03/04/2025"]>>, u |-> ""],
            [f |-> "date", p |-> 4, v |-> <<"dstr", [shape |-> "num3", sep |-> "/", mon |-> "", a |-> 3, b |-> 4, c |-> 2025, clen |-> 4, s |-> "03/04/2025"]>>, u |-> ""],
            [f |-> "date", p |-> 8, v |-> <<"dstr", [shape |-> "num2", sep |-> "/", mon |-> "", a |-> 4, b |-> 0, c |-> 2025, clen |-> 4, s |-> "04/2025"]>>, u |-> ""]}
      [] line = "05/06/2026" ->
           {[f |-> "date", p |-> 4, v |-> <<"dstr", [shape |-> "num3", sep |-> "/", mon |-> "", a |-> 5, b |-> 6, c |-> 2026, clen |-> 4, s |-> "05/06/2026"]>>, u |-> ""],
            [f |-> "date", p |-> 8, v |-> <<"dstr", [shape |-> "num2", sep |-> "/", mon |-> "", a |-> 6, b |-> 0, c |-> 2026, clen |-> 4, s |-> "06/2026"]>>, u |-> ""]}
      [] line = "exp: 01/01/2019" ->
           {[f |-> "date", p |-> 1, v |-> <<"dstr", [shape |-> "num3", sep |-> "/", mon |-> "", a |-> 1, b |-> 1, c |-> 2019, clen |-> 4, s |-> "01/01/2019"]>>, u |-> ""],
            [f |-> "date", p |-> 4, v |-> <<"dstr", [shape |-> "num3", sep |-> "/", mon |-> "", a |-> 1, b |-> 1, c |-> 2019, clen |-> 4, s |-> "01/01/2019"]>>, u |-> ""],
            [f |-> "date", p |-> 8, v |-> <<"dstr", [shape |-> "num2", sep |-> "/", mon |-> "", a |-> 1, b |-> 0, c |-> 2019, clen |-> 4, s |-> "01/2019"]>>, u |-> ""]}
      [] line = "12345678" ->
           {[f |-> "barcode", p |-> 1, v |-> Str("12345678"), u |-> ""]}
      [] line = "ABCDEF123456" ->
           {[f |-> "barcode", p |-> 2, v |-> Str("ABCDEF123456"), u |-> ""]}
      [] line = "500 grams" ->
           {[f |-> "quantity", p |-> 2, v |-> Num(500), u |-> "gram"]}
      [] line = "calories: 120 kcal" ->
           {[f |-> "calories", p |-> 1, v |-> Num(120), u |-> ""]}
      [] line = "energy: 250 kcal" ->
           {[f |-> "calories", p |-> 2, v |-> Num(250), u |-> ""]}
      [] line = "protein: 5 g" ->
           {[f |-> "quantity", p |-> 1, v |-> Num(5), u |-> "g"],
            [f |-> "protein", p |-> 1, v |-> Num(5), u |-> ""]}
      [] line = "store: in a cool dry place." ->
           {[f |-> "storage_instructions", p |-> 1, v |-> Str("in a cool dry place."), u |-> ""]}
      [] line = "keep: refrigerated after opening." ->
           {[f |-> "storage_instructions", p |-> 3, v |-> Str("refrigerated after opening."), u |-> ""]}
      [] line = "best before 31/12/25" ->
           {[f |-> "date", p |-> 1, v |-> <<"dstr", [shape |-> "num3", sep |-> "/", mon |-> "", a |-> 31, b |-> 12, c |-> 25, clen |-> 2, s |-> "31/12/25"]>>, u |-> ""],
            [f |-> "date", p |-> 4, v |-> <<"dstr", [shape |-> "num3", sep |-> "/", mon |-> "", a |-> 31, b |-> 12, c |-> 25, clen |-> 2, s |-> "31/12/25"]>>, u |-> ""]}
      [] line = "03/04/2024" ->
           {[f |-> "date", p |-> 4, v |-> <<"dstr", [shape |-> "num3", sep |-> "/", mon |-> "", a |-> 3, b |-> 4, c |-> 2024, clen |-> 4, s |-> "03/04/2024"]>>, u |-> ""],
            [f |-> "date", p |-> 8, v |-> <<"dstr", [shape |-> "num2", sep |-> "/", mon |-> "", a |-> 4, b |-> 0, c |-> 2024, clen |-> 4, s |-> "04/2024"]>>, u |-> ""]}
      [] line = "use by 01/02/2031" ->
           {[f |-> "date", p |-> 1, v |-> <<"dstr", [shape |-> "num3", sep |-> "/", mon |-> "", a |-> 1, b |-> 2, c |-> 2031, clen |-> 4, s |-> "01/02/2031"]>>, u |-> ""],
            [f |-> "date", p |-> 4, v |-> <<"dstr", [shape |-> "num3", sep |-> "/", mon |-> "", a |-> 1, b |-> 2, c |-> 2031, clen |-> 4, s |-> "01/02/2031"]>>, u |-> ""],
            [f |-> "date", p |-> 8, v |-> <<"dstr", [shape |-> "num2", sep |-> "/", mon |-> "", a |-> 2, b |-> 0, c |-> 2031, clen |-> 4, s |-> "02/2031"]>>, u |-> ""]}
      [] line = "best before may 5, 2031" ->
           {[f |-> "date", p |-> 2, v |-> <<"dstr", [shape |-> "mon_d_y", sep |-> ",", mon |-> "may", a |-> 5, b |-> 0, c |-> 2031, clen |-> 4, s |-> "may 5, 2031"]>>, u |-> ""],
            [f |-> "date", p |-> 5, v |-> <<"dstr", [shape |-> "mon_d_y", sep |-> ",", mon |-> "may", a |-> 5, b |-> 0, c |-> 2031, clen |-> 4, s |-> "may 5, 2031"]>>, u |-> ""]}
      [] line = "15 jan 2026" ->
           {[f |-> "date", p |-> 6, v |-> <<"dstr", [shape |-> "d_mon_y", sep |-> " ", mon |-> "jan", a |-> 15, b |-> 0, c |-> 2026, clen |-> 4, s |-> "15 jan 2026"]>>, u |-> ""],
            [f |-> "date", p |-> 7, v |-> <<"dstr", [shape |-> "mon_y", sep |-> " ", mon |-> "jan", a |-> 0, b |-> 0, c |-> 2026, clen |-> 4, s |-> "jan 2026"]>>, u |-> ""]}
      [] line = "exp: 31-12-2026" ->
           {[f |-> "date", p |-> 1, v |-> <<"dstr", [shape |-> "num3", sep |-> "-", mon |-> "", a |-> 31, b |-> 12, c |-> 2026, clen |-> 4, s |-> "31-12-2026"]>>, u |-> ""],
            [f |-> "date", p |-> 4, v |-> <<"dstr", [shape |-> "num3", sep |-> "-", mon |-> "", a |-> 31, b |-> 12, c |-> 2026, clen |-> 4, s |-> "31-12-2026"]>>, u |-> ""]}
      [] line = "31.12.26" ->
           {[f |-> "date", p |-> 4, v |-> <<"dstr", [shape |-> "num3", sep |-> ".", mon |-> "", a |-> 31, b |-> 12, c |-> 26, clen |-> 2, s |-> "31.12.26"]>>, u |-> ""]}
      [] line = "exp: 2026-12-31" ->
           {}
      [] OTHER -> {}

\* re.findall(pattern p of field f, text): the captures in text order.
RECURSIVE Matches(_, _, _)
Matches(lines, f, p) ==
    IF lines = <<>> THEN <<>>
    ELSE LET here == { m \in Lex(Head(lines)) : m.f = f /\ m.p = p }
         IN  (IF here = {} THEN <<>> ELSE <<CHOOSE m \in here : TRUE>>)
             \o Matches(Tail(lines), f, p)

\* Mutant: the month-first formats come before the day-first formats.
date_formats_MonthFirst ==
    << [k |-> "mdy", sep |-> "/", ylen |-> 4], [k |-> "mdy", sep |-> "-", ylen |-> 4],
       [k |-> "mdy", sep |-> ".", ylen |-> 4],
       [k |-> "mdy", sep |-> "/", ylen |-> 2], [k |-> "mdy", sep |-> "-", ylen |-> 2],
       [k |-> "mdy", sep |-> ".", ylen |-> 2],
       [k |-> "dmy", sep |-> "/", ylen |-> 4], [k |-> "dmy", sep |-> "-", ylen |-> 4],
       [k |-> "dmy", sep |-> ".", ylen |-> 4],
       [k |-> "dmy", sep |-> "/", ylen |-> 2], [k |-> "dmy", sep |-> "-", ylen |-> 2],
       [k |-> "dmy", sep |-> ".", ylen |-> 2],
       [k |-> "ymd", sep |-> "/", ylen |-> 4], [k |-> "ymd", sep |-> "-", ylen |-> 4],
       [k |-> "ymd", sep |-> ".", ylen |-> 4],
       [k |-> "B d, Y", sep |-> " ", ylen |-> 4], [k |-> "b d, Y", sep |-> " ", ylen |-> 4],
       [k |-> "d B Y", sep |-> " ", ylen |-> 4], [k |-> "d b Y", sep |-> " ", ylen |-> 4],
       [k |-> "B Y", sep |-> " ", ylen |-> 4], [k |-> "b Y", sep |-> " ", ylen |-> 4],
       [k |-> "mY", sep |-> "/", ylen |-> 4] >>

\* date_formats, lines 131-140: the order of the fields, the separator and
\* the digits of the year.
date_formats ==
    << [k |-> "dmy", sep |-> "/", ylen |-> 4], [k |-> "dmy", sep |-> "-", ylen |-> 4],
       [k |-> "dmy", sep |-> ".", ylen |-> 4],
       [k |-> "dmy", sep |-> "/", ylen |-> 2], [k |-> "dmy", sep |-> "-", ylen |-> 2],
       [k |-> "dmy", sep |-> ".", ylen |-> 2],
       [k |-> "mdy", sep |-> "/", ylen |-> 4], [k |-> "mdy", sep |-> "-", ylen |-> 4],
       [k |-> "mdy", sep |-> ".", ylen |-> 4],
       [k |-> "mdy", sep |-> "/", ylen |-> 2], [k |-> "mdy", sep |-> "-", ylen |-> 2],
       [k |-> "mdy", sep |-> ".", ylen |-> 2],
       [k |-> "ymd", sep |-> "/", ylen |-> 4], [k |-> "ymd", sep |-> "-", ylen |-> 4],
       [k |-> "ymd", sep |-> ".", ylen |-> 4],
       [k |-> "B d, Y", sep |-> " ", ylen |-> 4], [k |-> "b d, Y", sep |-> " ", ylen |-> 4],
       [k |-> "d B Y", sep |-> " ", ylen |-> 4], [k |-> "d b Y", sep |-> " ", ylen |-> 4],
       [k |-> "B Y", sep |-> " ", ylen |-> 4], [k |-> "b Y", sep |-> " ", ylen |-> 4],
       [k |-> "mY", sep |-> "/", ylen |-> 4] >>

IsLeap(y) == y % 4 = 0 /\ (y % 100 # 0 \/ y % 400 = 0)

DaysInMonth(y, m) ==
    IF m = 2 THEN (IF IsLeap(y) THEN 29 ELSE 28)
    ELSE IF m \in {4, 6, 9, 11} THEN 30 ELSE 31

\* The year %y gives for two digits.
TwoDigitYear(yy) == IF yy <= 68 THEN 2000 + yy ELSE 1900 + yy

\* datetime(y, m, d), or <<>> for the ValueError of an impossible date.
MakeDate(y, m, d) ==
    IF m \in 1..12 /\ d >= 1 /\ d <= DaysInMonth(y, m) THEN <<y, m, d>> ELSE <<>>

MonthNames ==
    << "january", "february", "march", "april", "may", "june", "july",
       "august", "september", "october", "november", "december" >>

MonthAbbrs ==
    << "jan", "feb", "mar", "apr", "may", "jun", "jul", "aug", "sep", "oct",
       "nov", "dec" >>

\* The month %B (full) or %b gives for a lower-case word, 0 for a ValueError.
MonthOf(word, full) ==
    LET names == IF full THEN MonthNames ELSE MonthAbbrs
    IN  IF \E m \in 1..12 : names[m] = word
        THEN CHOOSE m \in 1..12 : names[m] = word
        ELSE 0

\* datetime.strptime(date_str, fmt).date() as <<y, m, d>>, or <<>> for a
\* ValueError.  %Y takes exactly four digits and %y exactly two; a space of
\* the format takes any white space.
strptime(ds, fmt) ==
    IF ds.shape = "num3" /\ fmt.k \in {"dmy", "mdy"}
    THEN IF ds.sep # fmt.sep \/ ds.clen # fmt.ylen THEN <<>>
         ELSE LET y == IF fmt.ylen = 4 THEN ds.c ELSE TwoDigitYear(ds.c)
              IN  IF fmt.k = "dmy" THEN MakeDate(y, ds.b, ds.a)
                  ELSE MakeDate(y, ds.a, ds.b)
    ELSE IF ds.shape = "num2" /\ fmt.k = "mY"
    THEN MakeDate(ds.c, ds.a, 1)
    ELSE IF ds.shape = "mon_d_y" /\ fmt.k \in {"B d, Y", "b d, Y"}
    THEN IF ds.sep # "," THEN <<>>
         ELSE MakeDate(ds.c, MonthOf(ds.mon, fmt.k = "B d, Y"), ds.a)
    ELSE IF ds.shape = "d_mon_y" /\ fmt.k \in {"d B Y", "d b Y"}
    THEN MakeDate(ds.c, MonthOf(ds.mon, fmt.k = "d B Y"), ds.a)
    ELSE IF ds.shape = "mon_y" /\ fmt.k \in {"B Y", "b Y"}
    THEN MakeDate(ds.c, MonthOf(ds.mon, fmt.k = "B Y"), 1)
    ELSE <<>>

\* The date strings the patterns capture in a text, in the order the parser
\* meets them: pattern by pattern, and match by match inside a pattern.
RECURSIVE Candidates(_, _)
Candidates(lines, p) ==
    IF p > NDatePatterns THEN <<>>
    ELSE Matches(lines, "date", p) \o Candidates(lines, p + 1)

\* The dates the formats from the i-th on read a string as, in their order.
RECURSIVE ReadingsFrom(_, _)
ReadingsFrom(ds, i) ==
    IF i > Len(date_formats) THEN <<>>
    ELSE (IF strptime(ds, date_formats[i]) = <<>> THEN <<>>
          ELSE <<strptime(ds, date_formats[i])>>)
         \o ReadingsFrom(ds, i + 1)

RECURSIVE ReadingsOf(_)
ReadingsOf(cands) ==
    IF cands = <<>> THEN <<>>
    ELSE ReadingsFrom(Head(cands).v[2], 1) \o ReadingsOf(Tail(cands))

\* Every reading the parser can come to check in a text, in the order it
\* meets them: string by string, and format by format for a string.
Attempted(text) ==
    IF ~Truthy(text) THEN <<>> ELSE ReadingsOf(Candidates(text[2], 1))

\* The most reads of the clock in one call on a text: line 146 is reached
\* once for every reading.
Attempts(text) == Len(Attempted(text))

\* The server's year as one pass over an image or one call of a parser sees
\* it: clk[k] is the year at the k-th read of line 146, for as many reads as
\* the pass can make.  The year does not go back; t[j] is the number of
\* reads made before its j-th turn, which can come before any read.
Clocks(from, reads) ==
    { [k \in 1..reads |-> from + Cardinality({ j \in DOMAIN t : t[j] < k })] :
        t \in [1..(FirstYear + MaxYears - 1 - from) -> 0..reads] }

\* Line 146: current_year = timezone.now().year, after n earlier reads.
CurrentYear(clk, n) == clk[n + 1]

\* The year at the end of a pass that read the clock n times.
YearAfter(clk, n, before) == IF n = 0 THEN before ELSE clk[n]

\* The years a pass of n reads read, in their order.
Seen(clk, n) == [k \in 1..n |-> clk[k]]

\* Mutant: every year is let through.
InWindow_Always(y, current_year) == TRUE

\* Line 147: 2020 <= parsed_date.year <= current_year + 5
InWindow(y, current_year) == MinYear <= y /\ y <= current_year + YearsAhead

\* Lines 142-152: the loop over the formats from the i-th on.  The year is
\* read (line 146) after every format that parses; n counts the reads.
RECURSIVE TryFormats(_, _, _, _)
TryFormats(ds, i, clk, n) ==
    IF i > Len(date_formats) THEN [date |-> PyNone, n |-> n]
    ELSE LET r == strptime(ds, date_formats[i])
         IN  IF r = <<>> THEN TryFormats(ds, i + 1, clk, n)
             ELSE IF InWindow(r[1], CurrentYear(clk, n))
                  THEN [date |-> DateObj(r[1], r[2], r[3]), n |-> n + 1]
                  ELSE TryFormats(ds, i + 1, clk, n + 1)

\* Lines 127-152: the date, and the reads of the clock so far.
try_parse_date(ds, clk, n) == TryFormats(ds, 1, clk, n)

RECURSIVE FirstParsed(_, _, _)
FirstParsed(ms, clk, n) ==
    IF ms = <<>> THEN [date |-> PyNone, n |-> n]
    ELSE CHOOSE r \in { IF Truthy(d.date) THEN d
                        ELSE FirstParsed(Tail(ms), clk, d.n) :
                          d \in {try_parse_date(Head(ms).v[2], clk, n)} } : TRUE

RECURSIVE ParseFromPattern(_, _, _, _)
ParseFromPattern(lines, p, clk, n) ==
    IF p > NDatePatterns THEN [date |-> PyNone, n |-> n]
    ELSE CHOOSE r \in { IF Truthy(d.date) THEN d
                        ELSE ParseFromPattern(lines, p + 1, clk, d.n) :
                          d \in {FirstParsed(Matches(lines, "date", p), clk, n)} } :
             TRUE

\* Lines 90-125: the date, and the reads of the clock so far.
parse_expiry_date_from_text(text, clk, n) ==
    IF ~Truthy(text) THEN [date |-> PyNone, n |-> n]
    ELSE ParseFromPattern(text[2], 1, clk, n)

\* unit_map.get(unit, unit), lines 177-183.
unit_map(u) ==
    CASE u \in {"gram", "grams"} -> "g"
      [] u \in {"kilogram", "kilograms"} -> "kg"
      [] u \in {"milliliter", "milliliters"} -> "ml"
      [] u \in {"liter", "liters"} -> "l"
      [] u \in {"ounce", "ounces"} -> "oz"
      [] u \in {"pound", "pounds"} -> "lb"
      [] u \in {"piece", "pcs", "items", "units"} -> "pieces"
      [] OTHER -> u

\* How many patterns the list of a field has.
NPatterns(f) ==
    CASE f = "quantity" -> 5
      [] f \in {"calories", "carbs", "fiber", "storage_instructions"} -> 3
      [] OTHER -> 2

\* Lines 154-187: the first match of the first pattern that matches, as
\* <<quantity, unit>>; <<PyNone, PyNone>> when none does.
RECURSIVE QuantityFrom(_, _)
QuantityFrom(lines, p) ==
    IF p > NPatterns("quantity") THEN <<PyNone, PyNone>>
    ELSE LET ms == Matches(lines, "quantity", p)
         IN  IF ms # <<>> THEN <<Head(ms).v, Str(unit_map(Head(ms).u))>>
             ELSE QuantityFrom(lines, p + 1)

extract_quantity_and_unit(text) ==
    IF ~Truthy(text) THEN <<PyNone, PyNone>> ELSE QuantityFrom(text[2], 1)

\* A loop of the shape "for pattern in patterns: for match in matches:
\* info[f] = match; break": the break leaves the inner loop only, so every
\* pattern that matches assigns its first match in turn.  acc is <<>> while
\* nothing was assigned, <<v>> after.
RECURSIVE AssignEach(_, _, _, _)
AssignEach(lines, f, p, acc) ==
    IF p > NPatterns(f) THEN acc
    ELSE LET ms == Matches(lines, f, p)
         IN  AssignEach(lines, f, p + 1,
                        IF ms # <<>> THEN <<Head(ms).v>> ELSE acc)

\* {f: v} when the loop assigned v, {} when it assigned nothing.
Assigned(f, acc) == IF acc = <<>> THEN EmptyDict ELSE Put(EmptyDict, f, acc[1])

NutritionalFields == <<"calories", "protein", "carbs", "fat", "fiber">>

\* Lines 189-264.
extract_nutritional_info(text) ==
    IF ~Truthy(text) THEN EmptyDict
    ELSE LET one(f) == Assigned(f, AssignEach(text[2], f, 1, <<>>))
         IN  Update(Update(Update(Update(one("calories"), one("protein")),
                                  one("carbs")), one("fat")), one("fiber"))

\* Lines 277-285: the first line that passes for a product name.
RECURSIVE FirstNameLine(_)
FirstNameLine(lines) ==
    IF lines = <<>> THEN EmptyDict
    ELSE IF IsNameLine(Head(lines))
         THEN Put(EmptyDict, "product_name", Str(Head(lines)))
         ELSE FirstNameLine(Tail(lines))

\* Lines 266-324.
extract_product_info_from_text(text) ==
    IF ~Truthy(text) THEN EmptyDict
    ELSE LET name == FirstNameLine(text[2])
             barcode == Assigned("barcode", AssignEach(text[2], "barcode", 1, <<>>))
             qu == extract_quantity_and_unit(text)
             qty == IF Truthy(qu[1]) THEN Put(EmptyDict, "quantity", qu[1])
                    ELSE EmptyDict
             unit == IF Truthy(qu[2]) THEN Put(EmptyDict, "unit", qu[2])
                     ELSE EmptyDict
             storage == Assigned("storage_instructions",
                           AssignEach(text[2], "storage_instructions", 1, <<>>))
         IN  Update(Update(Update(Update(Update(name, barcode), qty), unit),
                           extract_nutritional_info(text)), storage)

(***************************************************************************)
(* The vision call and the merge of the two images.                        *)
(***************************************************************************)
\* The keys of the JSON object the prompt asks for (lines 35-49).
SchemaKeys ==
    {"product_name", "expiry_date", "barcode", "quantity", "unit", "calories",
     "protein", "carbs", "fat", "fiber", "brand", "storage_instructions",
     "detected_text"}

\* The object with every value null.
SchemaNulls == [k \in SchemaKeys |-> PyNone]

\* An image is modelled by what the vision service does when it is sent:
\*   raises    the call raises (network, quota, timeout)
\*   json      the answer is a JSON object, data
\*   jsonlist  the answer is valid JSON but a non-empty array, not an object
\*   text      the answer is not JSON: raw, some text
\* NoImage is the argument None.
NoImage == [kind |-> "noimage", data |-> EmptyDict, raw |-> PyNone]

Raises == [kind |-> "raises", data |-> EmptyDict, raw |-> PyNone]

JsonList == [kind |-> "jsonlist", data |-> EmptyDict, raw |-> PyNone]

FreeText(t) == [kind |-> "text", data |-> EmptyDict, raw |-> t]

Json(d) == [kind |-> "json", data |-> Update(SchemaNulls, d), raw |-> PyNone]

\* Mutant: the failure of the call is not caught.
extract_text_from_image_Uncaught(image) ==
    CASE image.kind = "raises" -> <<"list", 0>>
      [] image.kind = "json" -> <<"dict", image.data>>
      [] image.kind = "jsonlist" -> <<"list", 0>>
      [] OTHER -> <<"dict", [detected_text |-> image.raw]>>

\* Lines 13-88: None when the call raised, the parsed JSON when the answer is
\* JSON, {"detected_text": answer} when it is not.
extract_text_from_image(image) ==
    CASE image.kind = "raises" -> PyNone
      [] image.kind = "json" -> <<"dict", image.data>>
      [] image.kind = "jsonlist" -> <<"list", 0>>
      [] OTHER -> <<"dict", [detected_text |-> image.raw]>>

\* "if ai_data:" - None and the empty dict are false.
TruthyData(ai) ==
    CASE ai[1] = "none" -> FALSE
      [] ai[1] = "dict" -> DOMAIN ai[2] # {}
      [] OTHER -> TRUE

\* ai_data.get(f) and ai_data[f] != 'null'
PresentNotNull(d, f) == Truthy(Get(d, f)) /\ Get(d, f) # Str("null")

\* Lines 340-345 and 359-364: the structured expiry_date when it is truthy,
\* else the date parsed from the detected text, if any; with the reads of the
\* clock so far.
WithExpiry(data, d, clk, n) ==
    IF Truthy(Get(d, "expiry_date"))
    THEN [data |-> Put(data, "expiry_date", Get(d, "expiry_date")), n |-> n]
    ELSE IF Truthy(Get(d, "detected_text"))
         THEN CHOOSE r \in { [data |-> IF Truthy(e.date)
                                       THEN Put(data, "expiry_date", e.date)
                                       ELSE data,
                              n |-> e.n] :
                  e \in {parse_expiry_date_from_text(Get(d, "detected_text"),
                                                     clk, n)} } : TRUE
         ELSE [data |-> data, n |-> n]

\* Lines 340-343 and 359-362: a pass over an image reads the clock only in
\* parse_expiry_date_from_text, which it calls when the answer is a dict with
\* a detected text and without an expiry_date of its own.
ParsesText(image) ==
    /\ image # NoImage
    /\ extract_text_from_image(image)[1] = "dict"
    /\ ~Truthy(Get(extract_text_from_image(image)[2], "expiry_date"))
    /\ Truthy(Get(extract_text_from_image(image)[2], "detected_text"))

\* The most reads of the clock in a pass over an image.
PassReads(image) ==
    IF ParsesText(image)
    THEN Attempts(Get(extract_text_from_image(image)[2], "detected_text"))
    ELSE 0

\* Lines 335-350.  The result is the accumulator, whether an exception was
\* raised (ai_data.get on what is not a dict) and the reads of the clock.
LabelPass(data, image, clk, n) ==
    IF image = NoImage THEN [data |-> data, raised |-> FALSE, n |-> n]
    ELSE LET ai == extract_text_from_image(image)
         IN  IF ~TruthyData(ai) THEN [data |-> data, raised |-> FALSE, n |-> n]
             ELSE IF ai[1] # "dict" THEN [data |-> data, raised |-> TRUE, n |-> n]
             ELSE CHOOSE r \in
                    { [data |-> IF Truthy(Get(ai[2], "detected_text"))
                                THEN Update(d1.data,
                                            extract_product_info_from_text(
                                                Get(ai[2], "detected_text")))
                                ELSE d1.data,
                       raised |-> FALSE,
                       n |-> d1.n] :
                        d1 \in {WithExpiry(data, ai[2], clk, n)} } : TRUE

\* Lines 367-386: the fields copied from the JSON of the product image.
CopiedFields ==
    <<"product_name", "barcode", "quantity", "unit",
      "calories", "protein", "carbs", "fat", "fiber", "storage_instructions">>

RECURSIVE CopyFields(_, _, _)
CopyFields(data, d, i) ==
    IF i > Len(CopiedFields) THEN data
    ELSE CopyFields(IF PresentNotNull(d, CopiedFields[i])
                    THEN Put(data, CopiedFields[i], d[CopiedFields[i]])
                    ELSE data,
                    d, i + 1)

\* Lines 389-394: the text's fields, for the keys that are missing or falsy.
FillFromText(data, info) ==
    [k \in { x \in DOMAIN info : x \notin DOMAIN data \/ ~Truthy(data[x]) }
        |-> info[k]] @@ data

\* Mutant: the product image's date is taken whatever the label gave.
ProductPass_DateAlways(data, image, clk, n) ==
    IF image = NoImage THEN [data |-> data, raised |-> FALSE, n |-> n]
    ELSE LET ai == extract_text_from_image(image)
         IN  IF ~TruthyData(ai) THEN [data |-> data, raised |-> FALSE, n |-> n]
             ELSE IF ai[1] # "dict" THEN [data |-> data, raised |-> TRUE, n |-> n]
             ELSE CHOOSE r \in
                    { [data |-> IF Truthy(Get(ai[2], "detected_text"))
                                THEN FillFromText(
                                        CopyFields(d1.data, ai[2], 1),
                                        extract_product_info_from_text(
                                            Get(ai[2], "detected_text")))
                                ELSE CopyFields(d1.data, ai[2], 1),
                       raised |-> FALSE,
                       n |-> d1.n] :
                        d1 \in {WithExpiry(data, ai[2], clk, n)} } : TRUE

\* Lines 353-394.
ProductPass(data, image, clk, n) ==
    IF image = NoImage THEN [data |-> data, raised |-> FALSE, n |-> n]
    ELSE LET ai == extract_text_from_image(image)
         IN  IF ~TruthyData(ai) THEN [data |-> data, raised |-> FALSE, n |-> n]
             ELSE IF ai[1] # "dict" THEN [data |-> data, raised |-> TRUE, n |-> n]
             ELSE CHOOSE r \in
                    { [data |-> IF Truthy(Get(ai[2], "detected_text"))
                                THEN FillFromText(
                                        CopyFields(d1.data, ai[2], 1),
                                        extract_product_info_from_text(
                                            Get(ai[2], "detected_text")))
                                ELSE CopyFields(d1.data, ai[2], 1),
                       raised |-> FALSE,
                       n |-> d1.n] :
                        d1 \in {IF "expiry_date" \notin DOMAIN data
                                THEN WithExpiry(data, ai[2], clk, n)
                                ELSE [data |-> data, n |-> n]} } : TRUE

\* Line 331: extracted_data = current_data or {}
StartData(current) == IF current = PyNone \/ current[2] = EmptyDict
                      THEN EmptyDict ELSE current[2]

\* Lines 333, 402-403: an exception of either pass is caught and logged;
\* the value is whether it leaves the function.
HandleException(raised) == FALSE

\* Lines 326-405 as one function: the dict returned, whether an exception
\* was raised inside (and caught) and the reads of the clock.
process_pantry_item_images(product_image, expiry_label_image, current, clk) ==
    CHOOSE r \in { IF l.raised THEN l
                   ELSE ProductPass(l.data, product_image, clk, l.n) :
                     l \in {LabelPass(StartData(current), expiry_label_image,
                                      clk, 0)} } :
        TRUE

(***************************************************************************)
(* SpecMerge: one call of process_pantry_item_images.                      *)
(***************************************************************************)
\* Texts the vision service finds on an expiry label.
LabelTexts ==
    {Text(<<"exp: 03/04/2025">>),
     Text(<<"exp: 01/01/2019", "Rolled Oats Original">>),
     Text(<<"12345678", "calories: 120 kcal">>),
     Text(<<"use by 01/02/2031">>)}

\* Texts it finds on a product photo.
ProductTexts ==
    {Text(<<"05/06/2026", "ABCDEF123456">>),
     Text(<<"Rolled Oats Original", "500 grams", "energy: 250 kcal",
            "store: in a cool dry place.">>),
     Text(<<"protein: 5 g">>)}

\* One field of the JSON object set: to the null token, to a falsy value, to
\* a value.
OneField ==
    {EmptyDict,
     [product_name |-> Str("null")], [product_name |-> Str("Oats")],
     [product_name |-> Str("")],
     [barcode |-> Str("null")], [barcode |-> Str("87654321")],
     [unit |-> Str("null")], [unit |-> Str("kg")],
     [brand |-> Str("Acme")],
     [storage_instructions |-> Str("null")],
     [storage_instructions |-> Str("Keep frozen")],
     [quantity |-> Str("null")], [quantity |-> Num(0)], [quantity |-> Num(1)],
     [quantity |-> Num(750)]}
    \cup { Put(EmptyDict, NutritionalFields[i], v) :
             i \in 1..Len(NutritionalFields), v \in {Str("null"), Num(0), Num(30)} }

\* The JSON object with these values; PyNone is null.
JsonOf(expiry, text, field) ==
    Json(Update([expiry_date |-> expiry, detected_text |-> text], field))

\* A text answer that is not JSON (a lone number is JSON).
NotJson(t) == t # Text(<<"12345678">>)

LabelImages ==
    {NoImage, Raises, JsonList}
    \cup { FreeText(t) : t \in { x \in LabelTexts : NotJson(x) } }
    \cup { JsonOf(e, t, f) :
             e \in {PyNone, Str("null"), Str("2025-01-01")},
             t \in {PyNone} \cup LabelTexts,
             f \in {EmptyDict, [product_name |-> Str("Label Name")]} }

ProductImages ==
    {NoImage, Raises, JsonList}
    \cup { FreeText(t) : t \in { x \in ProductTexts : NotJson(x) } }
    \cup { JsonOf(e, t, f) :
             e \in {PyNone, Str("null"), Str("2025-02-01")},
             t \in {PyNone} \cup ProductTexts,
             f \in OneField }

\* current_data: None, or what the form already holds.
CurrentData ==
    {PyNone,
     <<"dict", [product_name |-> Str("Typed Name")]>>,
     <<"dict", [expiry_date |-> Str("2024-11-11")]>>,
     <<"dict", [barcode |-> Str(""), quantity |-> Num(3)]>>}

\* The sweep at rest, in the specifications of the image pipeline.
SweepOff ==
    /\ clock = 1
    /\ pantry = [i \in ItemIds |->
                   [user |-> "u1", status |-> "active", quantity |-> 0,
                    expiry_date |-> NoDate]]
    /\ ledger = <<>>
    /\ sweep = [p \in Procs |-> IdleSweep]
    /\ trans = [i \in ItemIds |-> 0]
    /\ hist = <<>>
    /\ seqOnly = TRUE

InitMerge ==
    /\ SweepOff
    /\ year = FirstYear
    /\ apply = ApplyOff
    /\ parse = ParseOff
    /\ \E l \in LabelImages, p \in ProductImages, c \in CurrentData :
         merge = [pc |-> "start", label |-> l, product |-> p, current |-> c,
                  data |-> StartData(c), afterLabel |-> StartData(c),
                  raised |-> FALSE, escaped |-> FALSE, calls |-> <<>>,
                  labelClock |-> <<>>, productClock |-> <<>>]

\* Lines 334-350: the expiry label image.  The year can turn before any read
\* of the clock in the pass.
MergeLabel ==
    /\ merge.pc = "start"
    /\ \E clk \in Clocks(year, PassReads(merge.label)) :
         \E r \in {LabelPass(merge.data, merge.label, clk, 0)} :
           /\ merge' = [merge EXCEPT
                 !.data = r.data,
                 !.afterLabel = r.data,
                 !.labelClock = Seen(clk, r.n),
                 !.raised = r.raised,
                 !.escaped = HandleException(r.raised),
                 !.calls = IF merge.label # NoImage THEN Append(@, "label") ELSE @,
                 !.pc = IF r.raised THEN "done" ELSE "labelled"]
           /\ year' = YearAfter(clk, r.n, year)
    /\ UNCHANGED <<clock, pantry, ledger, sweep, trans, hist, seqOnly, apply, parse>>

\* Lines 352-394, then 405: the product image, and the return.
MergeProduct ==
    /\ merge.pc = "labelled"
    /\ \E clk \in Clocks(year, PassReads(merge.product)) :
         \E r \in {ProductPass(merge.data, merge.product, clk, 0)} :
           /\ merge' = [merge EXCEPT
                 !.data = r.data,
                 !.productClock = Seen(clk, r.n),
                 !.raised = r.raised,
                 !.escaped = HandleException(r.raised),
                 !.calls = IF merge.product # NoImage THEN Append(@, "product") ELSE @,
                 !.pc = "done"]
           /\ year' = YearAfter(clk, r.n, year)
    /\ UNCHANGED <<clock, pantry, ledger, sweep, trans, hist, seqOnly, apply, parse>>

NextMerge == MergeLabel \/ MergeProduct

SpecMerge == InitMerge /\ [][NextMerge]_vars

(***************************************************************************)
(* SpecText: the text parsers on one detected text.  The date parser is    *)
(* called as often as MaxParse times on the same text.                     *)
(***************************************************************************)
MaxLines == 2

MaxParse == 2

RECURSIVE SeqsUpTo(_)
SeqsUpTo(n) ==
    IF n = 0 THEN {<<>>}
    ELSE SeqsUpTo(n - 1)
         \cup { Append(t, l) : t \in { x \in SeqsUpTo(n - 1) : Len(x) = n - 1 },
                               l \in Lines }

\* The detected texts: up to MaxLines lines.
Texts == { Text(t) : t \in SeqsUpTo(MaxLines) }

InitText ==
    /\ SweepOff
    /\ year = FirstYear
    /\ merge = MergeOff
    /\ apply = ApplyOff
    /\ \E t \in Texts :
         parse = [pc |-> "text", text |-> t, dates |-> <<>>,
                  info |-> EmptyDict, infoDone |-> FALSE]

\* Lines 90-125: one call of parse_expiry_date_from_text.  The year can turn
\* before any read of the clock in the call.
ParseDate ==
    /\ parse.pc = "text"
    /\ Len(parse.dates) < MaxParse
    /\ \E clk \in Clocks(year, Attempts(parse.text)) :
         \E r \in {parse_expiry_date_from_text(parse.text, clk, 0)} :
           /\ parse' = [parse EXCEPT !.dates =
                 Append(@, [years |-> Seen(clk, r.n), date |-> r.date])]
           /\ year' = YearAfter(clk, r.n, year)
    /\ UNCHANGED <<clock, pantry, ledger, sweep, trans, hist, seqOnly, merge, apply>>

\* Lines 266-324: the call of extract_product_info_from_text.
ParseInfo ==
    /\ parse.pc = "text"
    /\ ~parse.infoDone
    /\ \E r \in {extract_product_info_from_text(parse.text)} :
         parse' = [parse EXCEPT !.info = r, !.infoDone = TRUE]
    /\ UNCHANGED <<clock, pantry, ledger, sweep, trans, hist, seqOnly, merge, apply, year>>

NextText == ParseDate \/ ParseInfo

SpecText == InitText /\ [][NextText]_vars

(***************************************************************************)
(* SpecApply: enhance_pantry_item_with_ai called on one pantry item, as    *)
(* often as MaxApply times.  The vision service answers the same for the   *)
(* same image, so every call works from the same merged record.            *)
(***************************************************************************)
\* At most MaxSet fields of the item hold a value of the user.
MaxSet == 2

\* The attributes of the item that lines 431-460 read and write.
ItemFields ==
    {"expiry_date", "name", "barcode", "calories", "protein", "carbs", "fat",
     "fiber", "quantity", "unit", "storage_instructions"}

\* The value of a field nobody has set: null for the nullable fields, the
\* empty name, 0 for nutrition, 1.0 for quantity.
Unset(f) ==
    CASE f = "name" -> Str("")
      [] f \in {"calories", "protein", "carbs", "fat", "fiber"} -> Num(0)
      [] f = "quantity" -> Num(1)
      [] OTHER -> PyNone

\* A value the user entered.
UserValue(f) ==
    CASE f = "expiry_date" -> DateObj(2024, 12, 24)
      [] f \in {"calories", "protein", "carbs", "fat", "fiber"} -> Num(7)
      [] f = "quantity" -> Num(2)
      [] OTHER -> Str("Typed")

Items ==
    { [f \in ItemFields |-> IF f \in S THEN UserValue(f) ELSE Unset(f)] :
        S \in { T \in SUBSET ItemFields : Cardinality(T) <= MaxSet } }

\* item.expiry_label_image
ItemLabelImages ==
    {NoImage, Raises, JsonList,
     FreeText(Text(<<"exp: 03/04/2025">>)),
     FreeText(Text(<<"use by 01/02/2031">>)),
     JsonOf(Str("2025-01-01"), PyNone, EmptyDict),
     JsonOf(Str("null"), Text(<<"exp: 03/04/2025">>), EmptyDict),
     JsonOf(PyNone, Text(<<"12345678", "calories: 120 kcal">>), EmptyDict)}

\* item.product_image
ItemProductImages ==
    {NoImage, Raises,
     FreeText(Text(<<"Rolled Oats Original", "500 grams", "energy: 250 kcal",
                     "store: in a cool dry place.">>)),
     JsonOf(Str("2025-02-01"), PyNone,
            [product_name |-> Str("Oats"), quantity |-> Num(1),
             calories |-> Num(120), unit |-> Str("kg")]),
     JsonOf(PyNone, Text(<<"05/06/2026", "ABCDEF123456">>),
            [product_name |-> Str("Oats"), quantity |-> Num(750),
             barcode |-> Str("87654321"), protein |-> Num(30),
             storage_instructions |-> Str("Keep frozen")]),
     JsonOf(PyNone, PyNone, [quantity |-> Num(0), fat |-> Num(0)])}

\* Lines 431-460 in their order: the key of the record, the attribute of the
\* item, and the test on the attribute.
ApplySteps ==
    <<[key |-> "expiry_date", attr |-> "expiry_date", test |-> "not"],
      [key |-> "product_name", attr |-> "name", test |-> "not"],
      [key |-> "barcode", attr |-> "barcode", test |-> "not"],
      [key |-> "calories", attr |-> "calories", test |-> "zero"],
      [key |-> "protein", attr |-> "protein", test |-> "zero"],
      [key |-> "carbs", attr |-> "carbs", test |-> "zero"],
      [key |-> "fat", attr |-> "fat", test |-> "zero"],
      [key |-> "fiber", attr |-> "fiber", test |-> "zero"],
      [key |-> "quantity", attr |-> "quantity", test |-> "one"],
      [key |-> "unit", attr |-> "unit", test |-> "not"],
      [key |-> "storage_instructions", attr |-> "storage_instructions",
       test |-> "not"]>>

\* Mutant: the attribute is written whatever it holds.
AttrIsUnset_Always(test, v) == TRUE

\* "not item.x", "item.x == 0", "item.quantity == 1.0"
AttrIsUnset(test, v) ==
    CASE test = "not" -> ~Truthy(v)
      [] test = "zero" -> v = Num(0)
      [] OTHER -> v = Num(1)

\* The steps of lines 431-460 whose condition holds.  Each step reads and
\* writes an attribute of its own, so the steps do not depend on one another.
StepsTaken(inst, rec) ==
    { i \in 1..Len(ApplySteps) :
        /\ Truthy(Get(rec, ApplySteps[i].key))
        /\ AttrIsUnset(ApplySteps[i].test, inst[ApplySteps[i].attr]) }

\* The key of the record that the step of attribute f reads.
KeyOf(f) == IF f = "name" THEN "product_name" ELSE f

\* Lines 430-460: the item after the assignments, and the attributes assigned.
ApplyRecord(inst, rec) ==
    [inst |-> [f \in ItemFields |->
                 IF \E i \in StepsTaken(inst, rec) : ApplySteps[i].attr = f
                 THEN rec[KeyOf(f)] ELSE inst[f]],
     written |-> { ApplySteps[i].attr : i \in StepsTaken(inst, rec) }]

InitApply ==
    /\ SweepOff
    /\ year = FirstYear
    /\ merge = MergeOff
    /\ parse = ParseOff
    /\ \E it \in Items, l \in ItemLabelImages, p \in ItemProductImages :
         apply = [pc |-> "ready", inst |-> it, stored |-> it,
                  expiry_label_image |-> l, product_image |-> p,
                  n |-> 0, rec |-> EmptyDict, before |-> it,
                  written |-> {}, saved |-> FALSE, saves |-> 0,
                  returned |-> FALSE]

\* Lines 412-420: extracted_data = {}, then the expiry label image, if any.
EnhanceLabel ==
    /\ apply.pc = "ready"
    /\ apply.n < MaxApply
    /\ \E clk \in Clocks(year, PassReads(apply.expiry_label_image)) :
         \E r \in {process_pantry_item_images(NoImage, apply.expiry_label_image,
                                              PyNone, clk)} :
           /\ apply' = [apply EXCEPT
                 !.pc = "labelled",
                 !.rec = IF apply.expiry_label_image # NoImage
                         THEN Update(EmptyDict, r.data) ELSE EmptyDict]
           /\ year' = YearAfter(clk, r.n, year)
    /\ UNCHANGED <<clock, pantry, ledger, sweep, trans, hist, seqOnly, merge, parse>>

\* Lines 422-427: the product image, if any and if there is no expiry date
\* yet.
EnhanceProduct ==
    /\ apply.pc = "labelled"
    /\ \E clk \in Clocks(year, PassReads(apply.product_image)) :
         \E r \in {IF /\ apply.product_image # NoImage
                       /\ ~Truthy(Get(apply.rec, "expiry_date"))
                    THEN process_pantry_item_images(apply.product_image, NoImage,
                                                    PyNone, clk)
                    ELSE [data |-> EmptyDict, raised |-> FALSE, n |-> 0]} :
           /\ apply' = [apply EXCEPT
                 !.pc = "merged",
                 !.rec = IF /\ apply.product_image # NoImage
                            /\ ~Truthy(Get(apply.rec, "expiry_date"))
                         THEN Update(@, r.data) ELSE @]
           /\ year' = YearAfter(clk, r.n, year)
    /\ UNCHANGED <<clock, pantry, ledger, sweep, trans, hist, seqOnly, merge, parse>>

\* Lines 429-471 with save() going through: the function returns updated.
EnhanceApply ==
    /\ apply.pc = "merged"
    /\ \E r \in {ApplyRecord(apply.inst, apply.rec)} :
           apply' = [apply EXCEPT
              !.pc = "ready",
              !.n = @ + 1,
              !.before = apply.inst,
              !.inst = r.inst,
              !.written = r.written,
              !.saved = r.written # {},
              !.saves = IF r.written # {} THEN @ + 1 ELSE @,
              !.stored = IF r.written # {} THEN r.inst ELSE @,
              !.returned = r.written # {}]
    /\ UNCHANGED <<clock, pantry, ledger, sweep, trans, hist, seqOnly, merge, parse, year>>

\* Lines 463, 468-471: save() raises; the exception is caught, the function
\* returns False and the object in memory keeps the assignments.
EnhanceSaveFails ==
    /\ apply.pc = "merged"
    /\ \E r \in {ApplyRecord(apply.inst, apply.rec)} :
           /\ r.written # {}
           /\ apply' = [apply EXCEPT
                 !.pc = "ready",
                 !.n = @ + 1,
                 !.before = apply.inst,
                 !.inst = r.inst,
                 !.written = r.written,
                 !.saved = TRUE,
                 !.saves = @ + 1,
                 !.returned = FALSE]
    /\ UNCHANGED <<clock, pantry, ledger, sweep, trans, hist, seqOnly, merge, parse, year>>

NextApply ==
    EnhanceLabel \/ EnhanceProduct \/ EnhanceApply \/ EnhanceSaveFails

SpecApply == InitApply /\ [][NextApply]_vars

(***************************************************************************)
(* Claims about the sweep.                                                 *)
(***************************************************************************)
\* The committed 'expired' rows of item i with waste date d.
ExpiredRowsOn(i, d) ==
    { k \in 1..Len(ledger) :
        /\ ledger[k].pantry_item = i
        /\ ledger[k].reason = "expired"
        /\ ledger[k].waste_date = d }

ExpiredRows(i) ==
    { k \in 1..Len(ledger) :
        ledger[k].pantry_item = i /\ ledger[k].reason = "expired" }

\* C1 - Sweep idempotence. When runs of the sweep follow one another, an item
\* gets at most one 'expired' row and is marked at most once; a run without a
\* per-item failure leaves each item it selected with exactly one 'expired'
\* row of that day, marked once; and a run that follows such a run for the same
\* user on the same day returns 0 and writes nothing.
C1_SweepIdempotent ==
    /\ \A i \in ItemIds : Cardinality(ExpiredRows(i)) <= 1 /\ trans[i] <= 1
    /\ \A k \in 1..Len(hist) :
         hist[k].failed = {} =>
            \A i \in hist[k].selected :
               /\ Cardinality(ExpiredRowsOn(i, hist[k].today)) = 1
               /\ trans[i] = 1
               /\ pantry[i].status = "expired"
    /\ \A j, k \in 1..Len(hist) :
         ( /\ j < k
           /\ hist[j].user = hist[k].user
           /\ hist[j].today = hist[k].today
           /\ hist[j].failed = {} )
         => hist[k].returned = 0 /\ hist[k].writes = 0

\* Two runs for one user on one day: the first swept an overdue item, the
\* second returned 0.
C1_Witness ==
    /\ Len(hist) = 2
    /\ hist[1].user = hist[2].user
    /\ hist[1].today = hist[2].today
    /\ hist[1].failed = {}
    /\ hist[1].returned = 1
    /\ hist[2].returned = 0
    /\ \E i \in hist[1].marked :
         hist[1].pre[i].quantity > 0 /\ hist[1].pre[i].expiry_date[1] < hist[1].today

\* The rows a run is to sweep, spelled out on the table as the run found it.
InScope(run, i) ==
    /\ run.pre[i].user = run.user
    /\ run.pre[i].status = "active"
    /\ run.pre[i].quantity > 0
    /\ run.pre[i].expiry_date # NoDate
    /\ run.pre[i].expiry_date[1] < run.today

\* C2 - Sweep scope. A run without a per-item failure marks exactly the rows
\* of its user that are active, of quantity > 0 and of an expiry date strictly
\* before the run's today; every other row keeps its status and gets no row
\* in the ledger.
C2_SweepScope ==
    \A k \in 1..Len(hist) :
       hist[k].failed = {} =>
          /\ hist[k].marked = { i \in ItemIds : InScope(hist[k], i) }
          /\ \A i \in ItemIds :
               InScope(hist[k], i) => hist[k].post[i].status = "expired"
          /\ \A i \in ItemIds :
               ~InScope(hist[k], i) =>
                  /\ hist[k].post[i].status = hist[k].pre[i].status
                  /\ \A n \in 1..Len(hist[k].created) :
                        hist[k].created[n].pantry_item # i

\* A run that swept one row and left alone a row of the same user that
\* expires today.
C2_Witness ==
    \E k \in 1..Len(hist) :
       /\ hist[k].failed = {}
       /\ hist[k].marked # {}
       /\ \E i \in ItemIds \ hist[k].marked :
            /\ hist[k].pre[i].user = hist[k].user
            /\ hist[k].pre[i].status = "active"
            /\ hist[k].pre[i].quantity > 0
            /\ hist[k].pre[i].expiry_date = DateOf(hist[k].today)

\* C3 - Sweep atomicity. In the committed tables an item the sweep marked has
\* an 'expired' row, and every 'expired' row belongs to an item that is marked
\* 'expired', also after an exception between the insert and mark_as_expired.
C3_SweepAtomic ==
    /\ \A i \in ItemIds :
         trans[i] > 0 => pantry[i].status = "expired" /\ ExpiredRows(i) # {}
    /\ \A k \in 1..Len(ledger) :
         ledger[k].reason = "expired" =>
            pantry[ledger[k].pantry_item].status = "expired"

\* mark_as_expired raised after the insert, and the run went on.
C3_Witness ==
    \E p \in Procs :
       /\ sweep[p].undone > 0
       /\ sweep[p].pc = "loop"
       /\ \E i \in sweep[p].failed : pantry[i].status = "active"

\* C4 - Concurrent sweeps. At most one 'expired' row for an item and a waste
\* date, also when two runs for the same user overlap.
C4_NoDuplicateRows ==
    \A i \in ItemIds : \A d \in 0..MaxDay :
       Cardinality(ExpiredRowsOn(i, d)) <= 1

\* Two runs of the same day overlapped on an item: one had its write refused
\* by the lock of the other, which committed the item's one row.
C4_Witness ==
    \E p, q \in Procs : \E i \in ItemIds :
       /\ p # q
       /\ sweep[p].pc # "idle" /\ sweep[q].pc # "idle"
       /\ sweep[p].user = sweep[q].user
       /\ sweep[p].today = sweep[q].today
       /\ i \in sweep[q].refused
       /\ i \in sweep[p].marked
       /\ \E k \in 1..Len(sweep[p].created) : sweep[p].created[k].pantry_item = i
       /\ Cardinality(ExpiredRowsOn(i, sweep[p].today)) = 1

\* C5 - Per-item failure isolation. In a finished run the items on which the
\* processing raised are still active and have no row of this run; every other
\* selected item was marked; and the returned count does not include an item
\* that raised during the insert or during mark_as_expired.
C5_FailureIsolated ==
    /\ \A k \in 1..Len(hist) :
         /\ hist[k].marked = hist[k].selected \ hist[k].failed
         /\ hist[k].returned = Cardinality(hist[k].counted)
         /\ \A i \in hist[k].failed \ hist[k].lost : i \notin hist[k].counted
         /\ hist[k].lost = {} =>
               hist[k].returned = Cardinality(hist[k].selected \ hist[k].failed)
         /\ \A i \in hist[k].failed :
              /\ hist[k].post[i].status = "active"
              /\ \A n \in 1..Len(hist[k].created) :
                    hist[k].created[n].pantry_item # i
    /\ \A p \in Procs :
         sweep[p].failed # {} => sweep[p].pc \in {"loop", "check", "create", "mark", "commit"}

\* A finished run in which one item raised after its insert, in
\* mark_as_expired, and another item was swept.
C5_Witness ==
    \E k \in 1..Len(hist) :
       /\ hist[k].failed # {}
       /\ hist[k].lost = {}
       /\ hist[k].undone > 0
       /\ hist[k].marked # {}
       /\ hist[k].returned = 1

\* C17 - Waste record content. Every row a run creates has reason 'expired',
\* the run's today as waste date, the item's expiry date (strictly before the
\* waste date) and the item's quantity (> 0) as original and as wasted
\* quantity; the run leaves every quantity as it was and returns the number
\* of items it turned to 'expired'.
C17_WasteRecordContent ==
    \A k \in 1..Len(hist) :
       /\ \A n \in 1..Len(hist[k].created) :
            LET r == hist[k].created[n]
                item == hist[k].pre[r.pantry_item]
            IN  /\ r.reason = "expired"
                /\ r.user = hist[k].user
                /\ r.waste_date = hist[k].today
                /\ r.expiry_date = item.expiry_date
                /\ r.expiry_date # NoDate
                /\ r.expiry_date[1] < r.waste_date
                /\ r.original_quantity = item.quantity
                /\ r.quantity_wasted = item.quantity
                /\ r.quantity_wasted > 0
                /\ \E j \in 1..Len(ledger) : ledger[j] = r
       /\ \A i \in ItemIds : hist[k].post[i].quantity = hist[k].pre[i].quantity
       /\ hist[k].returned =
             Cardinality({ i \in ItemIds :
                             /\ hist[k].pre[i].status # "expired"
                             /\ hist[k].post[i].status = "expired" })

(***************************************************************************)
(* Claims about the merge of the two images.                               *)
(***************************************************************************)
Range(q) == { q[i] : i \in 1..Len(q) }

\* The expiry date an image's answer yields: the structured field when it
\* holds a value, else the date parsed from the detected text; PyNone when
\* there is neither (or no usable answer).  clk is what the pass over the
\* image saw of the clock.
Yield(image, clk) ==
    IF image.kind = "json"
    THEN IF Truthy(image.data["expiry_date"]) THEN image.data["expiry_date"]
         ELSE parse_expiry_date_from_text(image.data["detected_text"], clk, 0).date
    ELSE IF image.kind = "text"
         THEN parse_expiry_date_from_text(image.raw, clk, 0).date
    ELSE PyNone

\* C6 - Merge priority for expiry_date. When the label image yields an expiry
\* date the merged record holds it, whatever the product image returns; the
\* product pass sets the expiry date only when the label yielded none, and
\* then to what the product image yields; a product_name the product image's
\* JSON supplies is in the merged record.  (What an image yields is computed
\* with the years the pass over it read.)
C6_LabelDateWins ==
    merge.pc = "done" =>
       /\ Truthy(Yield(merge.label, merge.labelClock)) =>
             Get(merge.data, "expiry_date") = Yield(merge.label, merge.labelClock)
       /\ Truthy(Get(merge.afterLabel, "expiry_date")) =>
             Get(merge.data, "expiry_date") = Get(merge.afterLabel, "expiry_date")
       /\ Get(merge.data, "expiry_date") # Get(merge.afterLabel, "expiry_date") =>
             /\ ~Truthy(Yield(merge.label, merge.labelClock))
             /\ Get(merge.data, "expiry_date") =
                   Yield(merge.product, merge.productClock)
       /\ ( /\ merge.product.kind = "json"
            /\ ~merge.raised
            /\ PresentNotNull(merge.product.data, "product_name") )
          => Get(merge.data, "product_name") = merge.product.data["product_name"]

\* The example of the specification: the label says 2025-01-01, the product
\* photo says 2025-02-01 and "Oats".
C6_Witness ==
    /\ merge.pc = "done"
    /\ merge.label = JsonOf(Str("2025-01-01"), PyNone, EmptyDict)
    /\ merge.product = JsonOf(Str("2025-02-01"), PyNone, [product_name |-> Str("Oats")])
    /\ merge.current = PyNone
    /\ merge.data = [expiry_date |-> Str("2025-01-01"), product_name |-> Str("Oats")]

\* C7 - Null-token handling. The merged record never holds the string "null",
\* and a null token in the label's expiry_date does not keep the date of the
\* label's detected text out of the record.
C7_NullTokenAbsent ==
    merge.pc = "done" =>
       /\ \A k \in DOMAIN merge.data : merge.data[k] # Str("null")
       /\ ( /\ merge.label.kind = "json"
            /\ merge.label.data["expiry_date"] \in {PyNone, Str("null")}
            /\ Truthy(parse_expiry_date_from_text(
                         merge.label.data["detected_text"],
                         merge.labelClock, 0).date) )
          => Get(merge.data, "expiry_date") =
                parse_expiry_date_from_text(merge.label.data["detected_text"],
                                            merge.labelClock, 0).date

\* C10 - Vision failure is non-fatal. No exception leaves
\* process_pantry_item_images; an image whose call raises gives None and the
\* result is that of the other image alone; an answer that is not JSON is
\* processed as the detected text of an otherwise empty answer.
C10_VisionFailureNonFatal ==
    /\ ~merge.escaped
    /\ merge.pc = "done" =>
       /\ merge.label.kind = "raises" =>
             /\ extract_text_from_image(merge.label) = PyNone
             /\ merge.afterLabel = StartData(merge.current)
             /\ merge.product # NoImage => merge.calls = <<"label", "product">>
             /\ merge.data =
                  process_pantry_item_images(merge.product, NoImage, merge.current,
                                             merge.productClock).data
       /\ (merge.product.kind = "raises" /\ merge.label.kind # "jsonlist") =>
             /\ extract_text_from_image(merge.product) = PyNone
             /\ ~merge.raised
             /\ merge.data = merge.afterLabel
             /\ merge.data =
                  process_pantry_item_images(NoImage, merge.label, merge.current,
                                             merge.labelClock).data
       /\ merge.label.kind = "text" =>
             merge.afterLabel =
                LabelPass(StartData(merge.current),
                          Json([detected_text |-> merge.label.raw]),
                          merge.labelClock, 0).data
       /\ (merge.product.kind = "text" /\ merge.label.kind # "jsonlist") =>
             /\ ~merge.raised
             /\ merge.data =
                  ProductPass(merge.afterLabel,
                              Json([detected_text |-> merge.product.raw]),
                              merge.productClock, 0).data

\* The label's call raised and the product photo's "Oats" is in the result.
C10_Witness ==
    /\ merge.pc = "done"
    /\ merge.label.kind = "raises"
    /\ merge.product.kind = "json"
    /\ merge.calls = <<"label", "product">>
    /\ merge.current = PyNone
    /\ Get(merge.data, "product_name") = Str("Oats")

\* The fields of the product image's JSON other than the date and the text.
ProductJsonFields ==
    {"product_name", "barcode", "quantity", "unit", "calories", "protein",
     "carbs", "fat", "fiber", "brand", "storage_instructions"}

\* C11 - Product-image structured precedence. When the product pass ran, a
\* field for which the product image's JSON holds a value that is neither
\* null nor the null token (a numeric 0 included) has exactly that value in
\* the merged record; the text of the image does not stand in for it.
C11_ProductJsonPrecedence ==
    (merge.pc = "done" /\ merge.product.kind = "json" /\ ~merge.raised) =>
       \A f \in ProductJsonFields :
          merge.product.data[f] \notin {PyNone, Str("null")} =>
             Get(merge.data, f) = merge.product.data[f]

\* C15 - Text heuristics are fill-if-absent. The label pass writes a field
\* other than expiry_date only from the label's text, so it leaves every such
\* field the accumulator held as it was; the product pass changes a field the
\* accumulator held only to the value of the product image's JSON.
C15_TextFillsIfAbsent ==
    /\ (merge.pc \in {"labelled", "done"} /\ "label" \in Range(merge.calls)) =>
          \A k \in DOMAIN StartData(merge.current) \ {"expiry_date"} :
             Get(merge.afterLabel, k) = StartData(merge.current)[k]
    /\ (merge.pc = "done" /\ merge.product.kind \in {"json", "text"}) =>
          \A k \in DOMAIN merge.afterLabel :
             merge.data[k] # merge.afterLabel[k] =>
                /\ merge.product.kind = "json"
                /\ merge.data[k] = merge.product.data[k]

(***************************************************************************)
(* Claims about the text parsers.                                          *)
(***************************************************************************)
\* The dates a string can be read as, under any of the formats.
Readings(ds) ==
    { strptime(ds, date_formats[i]) : i \in 1..Len(date_formats) } \ {<<>>}

\* A year from 2020 to five years after the year cy.
Sane(y, cy) == 2020 <= y /\ y <= cy + 5

\* C12 - Date sanity window. A date returned has a year from 2020 to five
\* years after the current year, which is the year the clock gave when that
\* date was checked. A reading outside the window (of the year the clock gave
\* when it was checked) is passed over, not returned, and the parser goes on
\* with the next format, the next match and the next pattern: every reading
\* checked before the call returned was outside the window, the date returned
\* is the reading checked last, and None is returned only after every reading
\* of every captured string was checked and found outside the window.
C12_DateSanityWindow ==
    \A n \in 1..Len(parse.dates) :
       LET d == parse.dates[n].date
           ys == parse.dates[n].years
           rs == Attempted(parse.text)
       IN  /\ Len(ys) <= Len(rs)
           /\ d # PyNone =>
                 /\ Len(ys) >= 1
                 /\ Sane(d[2][1], ys[Len(ys)])
                 /\ d = DateObj(rs[Len(ys)][1], rs[Len(ys)][2], rs[Len(ys)][3])
                 /\ \A k \in 1..(Len(ys) - 1) : ~Sane(rs[k][1], ys[k])
           /\ d = PyNone =>
                 /\ Len(ys) = Len(rs)
                 /\ \A k \in 1..Len(rs) : ~Sane(rs[k][1], ys[k])
           /\ (\A c \in Range(Candidates(parse.text[2], 1)) :
                 \A r \in Readings(c.v[2]) :
                    \A k \in 1..Len(ys) : ~Sane(r[1], ys[k]))
                 => d = PyNone

\* In 2025 a date of 2031 comes first and is passed over for the date of 2026
\* on the next line.
C12_Witness ==
    /\ parse.pc = "text"
    /\ parse.text = Text(<<"use by 01/02/2031", "05/06/2026">>)
    /\ parse.dates # <<>>
    /\ parse.dates[1].years = <<2025, 2025, 2025, 2025, 2025>>
    /\ parse.dates[1].date = DateObj(2026, 6, 5)

\* C13 - Format precedence. When the first captured string is a/b/yyyy with a
\* and b both from 1 to 12 and yyyy inside the window (of the current year as
\* the call first reads it), the date returned is day a of month b; and calls
\* on the same text that read the same years return the same.
C13_DayFirst ==
    /\ \A m, n \in 1..Len(parse.dates) :
         parse.dates[m].years = parse.dates[n].years =>
            parse.dates[m].date = parse.dates[n].date
    /\ \A n \in 1..Len(parse.dates) :
         LET c == Candidates(parse.text[2], 1)
             ys == parse.dates[n].years
         IN  ( /\ c # <<>>
               /\ c[1].v[2].shape = "num3"
               /\ c[1].v[2].sep = "/"
               /\ c[1].v[2].clen = 4
               /\ c[1].v[2].a \in 1..12
               /\ c[1].v[2].b \in 1..12
               /\ 2020 <= c[1].v[2].c
               /\ IF ys = <<>> THEN TRUE ELSE c[1].v[2].c <= ys[1] + 5 )
             => parse.dates[n].date =
                   DateObj(c[1].v[2].c, c[1].v[2].b, c[1].v[2].a)

\* "03/04/2024" read twice in 2025: the third of April both times.
C13_Witness ==
    /\ parse.pc = "text"
    /\ parse.text = Text(<<"03/04/2024">>)
    /\ Len(parse.dates) = 2
    /\ \A n \in 1..2 :
         /\ parse.dates[n].years = <<2025>>
         /\ parse.dates[n].date = DateObj(2024, 4, 3)

\* The fields whose patterns the text parser tries in the order of a list.
PatternFields ==
    {"calories", "protein", "carbs", "fat", "fiber", "barcode",
     "storage_instructions"}

\* The patterns of field f that match in the text.
Matching(lines, f) == { p \in 1..NPatterns(f) : Matches(lines, f, p) # <<>> }

\* C14 - First match wins. For a nutrient, the barcode and the storage
\* instructions, the value returned is the first match of the earliest
\* pattern of the list that matches.
C14_FirstPatternWins ==
    parse.infoDone =>
       \A f \in PatternFields :
          Matching(parse.text[2], f) # {} =>
             LET p == CHOOSE q \in Matching(parse.text[2], f) :
                         \A o \in Matching(parse.text[2], f) : q <= o
             IN  Get(parse.info, f) = Head(Matches(parse.text[2], f, p)).v

(***************************************************************************)
(* Claims about the applier.                                               *)
(***************************************************************************)
\* C8 - Applier idempotence. The second application of the same merged
\* record writes no field, does not call save and returns False.
C8_SecondApplicationNoOp ==
    apply.pc = "ready" /\ apply.n = 2 =>
       /\ apply.written = {}
       /\ ~apply.saved
       /\ apply.returned = FALSE
       /\ apply.inst = apply.before

\* C9 - Applier frame. A field is written only if it was at its unset value
\* before the call, a field that was not keeps its value, and save is called
\* exactly when a field was written.
C9_ApplierFrame ==
    apply.pc = "ready" /\ apply.n >= 1 =>
       /\ \A f \in ItemFields :
             /\ f \in apply.written => apply.before[f] = Unset(f)
             /\ apply.before[f] # Unset(f) => apply.inst[f] = apply.before[f]
             /\ f \notin apply.written => apply.inst[f] = apply.before[f]
       /\ apply.saved <=> apply.written # {}
       /\ apply.returned => apply.saved

\* The record offers a name and a quantity; the item has a typed name and an
\* unset barcode: the name stays, the barcode is written, the item is saved.
C9_Witness ==
    /\ apply.pc = "ready"
    /\ apply.n = 1
    /\ apply.before["name"] = Str("Typed")
    /\ Get(apply.rec, "product_name") = Str("Oats")
    /\ apply.inst["name"] = Str("Typed")
    /\ apply.before["barcode"] = PyNone
    /\ apply.inst["barcode"] = Str("87654321")
    /\ "barcode" \in apply.written
    /\ apply.saved
    /\ apply.returned

\* C16 - On-demand enrichment merges both images. For an item with a label
\* image and a product image, the record applied holds the values of the
\* product image's JSON for the fields other than the date, whether or not
\* the label gave an expiry date, and they fill the fields of the item that
\* were unset.
C16_BothImagesMerged ==
    ( /\ apply.pc = "merged" \/ (apply.pc = "ready" /\ apply.n >= 1)
      /\ apply.expiry_label_image # NoImage
      /\ apply.product_image.kind = "json" )
    => \A i \in 2..Len(ApplySteps) :
          PresentNotNull(apply.product_image.data, ApplySteps[i].key) =>
             /\ Get(apply.rec, ApplySteps[i].key) =
                   apply.product_image.data[ApplySteps[i].key]
             /\ ( /\ apply.pc = "ready"
                  /\ apply.before[ApplySteps[i].attr] = Unset(ApplySteps[i].attr) )
                => apply.inst[ApplySteps[i].attr] =
                      apply.product_image.data[ApplySteps[i].key]

====
